---- MODULE Spec2Model ----
(***************************************************************************)
(* Model of streamlit_app.py, the CO2 emissions calculator.                *)
(*                                                                         *)
(* Streamlit re-executes main() from top to bottom on every interaction.   *)
(* The state that survives between two executions is the value of the      *)
(* four input widgets and st.session_state.  Every action below is one     *)
(* interaction followed by the complete execution of main() it triggers.   *)
(*                                                                         *)
(* Numbers.  Quantities are whole units (m3, kWh, liter).  Emissions are   *)
(* kept exactly, in grams CO2-eq (1/1000 kg), so that quantity x factor    *)
(* and the sum are exact: 2.085 kg/m3 is 2085 g/m3.  A value printed with  *)
(* two decimals is an integer number of 1/100, a percentage printed with   *)
(* one decimal an integer number of 1/10 percent.                          *)
(*                                                                         *)
(* Line 39 of the source reads "if not emissies_data" without its colon;   *)
(* it is modelled as the if-statement it evidently is.                     *)
(***************************************************************************)
EXTENDS Integers, Sequences, FiniteSets, TLC

VARIABLES gas_verbruik, elektra_verbruik, stroom_type, diesel_verbruik,
          session_state, run, ooit_berekend

vars == <<gas_verbruik, elektra_verbruik, stroom_type, diesel_verbruik,
          session_state, run, ooit_berekend>>

\* Largest small quantity a number_input takes in the model.
MaxVerbruik == 1

\* The quantities of the worked example (100 m3 of gas, 300 kWh).
VoorbeeldVerbruik == {100, 300}

\* Values a number_input (min_value = 0.0) can hold.
Verbruiken == (0 .. MaxVerbruik) \cup VoorbeeldVerbruik

\* options of the selectbox, in order; the first one is the default.
StroomTypes == <<"Grijze stroom", "Groene stroom">>

\* EMISSIEFACTOREN, in grams CO2-eq per unit.
EMISSIEFACTOREN ==
    [k \in {"Aardgas (m3)", "Elektriciteit - Grijze stroom (kWh)",
            "Elektriciteit - Groene stroom (kWh)", "Diesel (liter)",
            "Benzine (liter)"} |->
        CASE k = "Aardgas (m3)" -> 2085
          [] k = "Elektriciteit - Grijze stroom (kWh)" -> 536
          [] k = "Elektriciteit - Groene stroom (kWh)" -> 0
          [] k = "Diesel (liter)" -> 3256
          [] k = "Benzine (liter)" -> 2821]

\* Variant of factor_key that ignores the selected tariff.
factor_key_Grijs(st) == "Elektriciteit - Grijze stroom (kWh)"

\* f'Elektriciteit - {stroom_type} (kWh)'
factor_key(st) == "Elektriciteit - " \o st \o " (kWh)"

\* A dict is a sequence of items in insertion order; keys are distinct.
Item(k, v) == [categorie |-> k, emissie |-> v]

keys(d) == [i \in 1 .. Len(d) |-> d[i].categorie]

values(d) == [i \in 1 .. Len(d) |-> d[i].emissie]

\* Variant of bereken_emissies that tests >= 0 where the code tests > 0.
bereken_emissies_VanafNul(gas_m3, elektra_kwh, st, diesel_liter) ==
    LET e0 == <<>>
        e1 == IF gas_m3 >= 0
              THEN Append(e0, Item("Aardgas", gas_m3 * EMISSIEFACTOREN["Aardgas (m3)"]))
              ELSE e0
        e2 == IF elektra_kwh >= 0
              THEN Append(e1, Item("Elektriciteit",
                                   elektra_kwh * EMISSIEFACTOREN[factor_key(st)]))
              ELSE e1
        e3 == IF diesel_liter >= 0
              THEN Append(e2, Item("Diesel", diesel_liter * EMISSIEFACTOREN["Diesel (liter)"]))
              ELSE e2
    IN e3

\* Variant of bereken_emissies that inserts the diesel category first.
bereken_emissies_DieselEerst(gas_m3, elektra_kwh, st, diesel_liter) ==
    LET e0 == <<>>
        e1 == IF diesel_liter > 0
              THEN Append(e0, Item("Diesel", diesel_liter * EMISSIEFACTOREN["Diesel (liter)"]))
              ELSE e0
        e2 == IF gas_m3 > 0
              THEN Append(e1, Item("Aardgas", gas_m3 * EMISSIEFACTOREN["Aardgas (m3)"]))
              ELSE e1
        e3 == IF elektra_kwh > 0
              THEN Append(e2, Item("Elektriciteit",
                                   elektra_kwh * EMISSIEFACTOREN[factor_key(st)]))
              ELSE e2
    IN e3

\* bereken_emissies(gas_m3, elektra_kwh, stroom_type, diesel_liter)
bereken_emissies(gas_m3, elektra_kwh, st, diesel_liter) ==
    LET e0 == <<>>
        e1 == IF gas_m3 > 0
              THEN Append(e0, Item("Aardgas", gas_m3 * EMISSIEFACTOREN["Aardgas (m3)"]))
              ELSE e0
        e2 == IF elektra_kwh > 0
              THEN Append(e1, Item("Elektriciteit",
                                   elektra_kwh * EMISSIEFACTOREN[factor_key(st)]))
              ELSE e1
        e3 == IF diesel_liter > 0
              THEN Append(e2, Item("Diesel", diesel_liter * EMISSIEFACTOREN["Diesel (liter)"]))
              ELSE e2
    IN e3

\* Variant of sum that leaves out the last element.
RECURSIVE sum_ZonderLaatste(_)
sum_ZonderLaatste(s) ==
    IF Len(s) <= 1 THEN 0 ELSE s[1] + sum_ZonderLaatste(Tail(s))

\* sum(...) over a list, left to right.
RECURSIVE sum(_)
sum(s) == IF s = <<>> THEN 0 ELSE s[1] + sum(Tail(s))

\* Variant of Afgerond that truncates.
Afgerond_Afgekapt(n, d) == n \div d

\* n / d rounded to the nearest integer, ties to even (d > 0, n >= 0): the
\* rounding of a format specification such as .1f or .2f.
Afgerond(n, d) ==
    LET q == n \div d
        r == n % d
    IN IF 2 * r < d THEN q
       ELSE IF 2 * r > d THEN q + 1
       ELSE IF q % 2 = 0 THEN q ELSE q + 1

\* f'{w:.1f}' of an emission in kg: tenths of a kg.
Fmt1(emissie) == Afgerond(emissie, 100)

\* f'{v:.2f}' of an emission in kg: hundredths of a kg.
Fmt2(emissie) == Afgerond(emissie, 10)

\* f'{(v / totaal * 100):.1f}%' for totaal > 0: tenths of a percent.
FmtPercentage(emissie, totaal) == Afgerond(emissie * 1000, totaal)

\* marker_color of the bar chart.
Palet == <<"#21808D", "#A87B2F", "#C0152F">>

\* maak_staafdiagram(emissies_data): None for an empty mapping, otherwise
\* the figure with its categories, heights and labels.
maak_staafdiagram(emissies_data) ==
    IF emissies_data = <<>>
    THEN [none |-> TRUE, x |-> <<>>, y |-> <<>>, text |-> <<>>]
    ELSE [none |-> FALSE,
          x |-> keys(emissies_data),
          y |-> values(emissies_data),
          text |-> [i \in 1 .. Len(emissies_data) |-> Fmt1(emissies_data[i].emissie)]]

\* genereer_pdf(emissies_data, verbruik_data, totaal_emissie, stroom_type):
\* the data rows of the consumption table and of the emissions table, and
\* the totals row.
genereer_pdf(emissies_data, verbruik_data, totaal_emissie, st) ==
    [verbruik_tabel |-> << <<"Aardgas", verbruik_data.gas * 100>>,
                           <<"Elektriciteit", verbruik_data.elektra * 100>>,
                           <<"Stroomtype", st>>,
                           <<"Diesel", verbruik_data.diesel * 100>> >>,
     emissie_tabel |->
        [i \in 1 .. Len(emissies_data) |->
            [categorie |-> emissies_data[i].categorie,
             emissie |-> Fmt2(emissies_data[i].emissie),
             percentage |-> IF totaal_emissie > 0
                            THEN FmtPercentage(emissies_data[i].emissie, totaal_emissie)
                            ELSE 0]],
     totaal_rij |-> <<"TOTAAL", Fmt2(totaal_emissie), 1000>>]

\* Keys of st.session_state written by main().
SessionKeys == {"emissies", "totaal", "verbruik", "stroom_type"}

\* st.session_state of a fresh session: no key.
LegeSessie == [k \in {} |-> 0]

\* Variant of AlleNul whose last comparison is inverted.
AlleNul_DieselOngelijk(g, e, d) == g = 0 /\ e = 0 /\ d # 0

\* The condition of line 272.
AlleNul(g, e, d) == g = 0 /\ e = 0 /\ d = 0

\* Variant of BerekenKnop without the all-zero check.
BerekenKnop_ZonderControle(ss, knop, g, e, st, d) ==
    IF ~knop
    THEN [ss |-> ss, warning |-> FALSE, berekend |-> FALSE]
    ELSE LET emissies == bereken_emissies(g, e, st, d)
             totaal == sum(values(emissies))
         IN [ss |-> ("emissies" :> emissies)
                    @@ ("totaal" :> totaal)
                    @@ ("verbruik" :> [gas |-> g, elektra |-> e, diesel |-> d])
                    @@ ("stroom_type" :> st)
                    @@ ss,
             warning |-> FALSE,
             berekend |-> TRUE]

\* Variant of BerekenKnop that stores the default tariff instead of the
\* selected one.
BerekenKnop_VastStroomType(ss, knop, g, e, st, d) ==
    IF ~knop
    THEN [ss |-> ss, warning |-> FALSE, berekend |-> FALSE]
    ELSE IF AlleNul(g, e, d)
    THEN [ss |-> ss, warning |-> TRUE, berekend |-> FALSE]
    ELSE LET emissies == bereken_emissies(g, e, st, d)
             totaal == sum(values(emissies))
         IN [ss |-> ("emissies" :> emissies)
                    @@ ("totaal" :> totaal)
                    @@ ("verbruik" :> [gas |-> g, elektra |-> e, diesel |-> d])
                    @@ ("stroom_type" :> StroomTypes[1])
                    @@ ss,
             warning |-> FALSE,
             berekend |-> TRUE]

\* Lines 271-287: the branch of the "Bereken" button.  Gives the session
\* state after it, whether the warning was shown and whether
\* bereken_emissies was invoked.
BerekenKnop(ss, knop, g, e, st, d) ==
    IF ~knop
    THEN [ss |-> ss, warning |-> FALSE, berekend |-> FALSE]
    ELSE IF AlleNul(g, e, d)
    THEN [ss |-> ss, warning |-> TRUE, berekend |-> FALSE]
    ELSE LET emissies == bereken_emissies(g, e, st, d)
             totaal == sum(values(emissies))
         IN [ss |-> ("emissies" :> emissies)
                    @@ ("totaal" :> totaal)
                    @@ ("verbruik" :> [gas |-> g, elektra |-> e, diesel |-> d])
                    @@ ("stroom_type" :> st)
                    @@ ss,
             warning |-> FALSE,
             berekend |-> TRUE]

\* Placeholders for a chart and a report that a run did not build.
GeenFig == [none |-> FALSE, x |-> <<>>, y |-> <<>>, text |-> <<>>]

GeenPdf == [verbruik_tabel |-> <<>>, emissie_tabel |-> <<>>, totaal_rij |-> <<>>]

\* What a run shows when the results section is skipped (line 290 false).
GeenResultaten ==
    [resultaten |-> FALSE, tabel |-> <<>>,
     fig_aangeroepen |-> FALSE, fig |-> GeenFig, chart |-> FALSE,
     pdf_gegenereerd |-> FALSE, pdf |-> GeenPdf,
     download |-> FALSE, fout |-> FALSE]

\* Lines 304-309: the rows of the results table.  The percentage divides by
\* the stored total without a guard.
Tabel(emissies, totaal) ==
    [i \in 1 .. Len(emissies) |->
        [categorie |-> emissies[i].categorie,
         emissie |-> Fmt2(emissies[i].emissie),
         percentage |-> FmtPercentage(emissies[i].emissie, totaal)]]

\* Variant of ToonResultaten with the download button outside the if.
ToonResultaten_DownloadAltijd(ss) ==
    IF "emissies" \notin DOMAIN ss
    THEN [GeenResultaten EXCEPT !.download = TRUE]
    ELSE IF ss["emissies"] # <<>> /\ ss["totaal"] = 0
    THEN [GeenResultaten EXCEPT !.resultaten = TRUE, !.fout = TRUE]
    ELSE LET fig == maak_staafdiagram(ss["emissies"])
         IN [resultaten |-> TRUE,
             tabel |-> Tabel(ss["emissies"], ss["totaal"]),
             fig_aangeroepen |-> TRUE,
             fig |-> fig,
             chart |-> ~fig.none,
             pdf_gegenereerd |-> TRUE,
             pdf |-> genereer_pdf(ss["emissies"], ss["verbruik"],
                                  ss["totaal"], ss["stroom_type"]),
             download |-> TRUE,
             fout |-> FALSE]

\* Lines 290-339: the results section.  A division by a zero total at line
\* 307 raises ZeroDivisionError, which ends the run there.
ToonResultaten(ss) ==
    IF "emissies" \notin DOMAIN ss
    THEN GeenResultaten
    ELSE IF ss["emissies"] # <<>> /\ ss["totaal"] = 0
    THEN [GeenResultaten EXCEPT !.resultaten = TRUE, !.fout = TRUE]
    ELSE LET fig == maak_staafdiagram(ss["emissies"])
         IN [resultaten |-> TRUE,
             tabel |-> Tabel(ss["emissies"], ss["totaal"]),
             fig_aangeroepen |-> TRUE,
             fig |-> fig,
             chart |-> ~fig.none,
             pdf_gegenereerd |-> TRUE,
             pdf |-> genereer_pdf(ss["emissies"], ss["verbruik"],
                                  ss["totaal"], ss["stroom_type"]),
             download |-> TRUE,
             fout |-> FALSE]

\* One execution of main() with the given widget values; knop is the value
\* st.button returns in this execution.
Main(knop, g, e, st, d) ==
    LET b == BerekenKnop(session_state, knop, g, e, st, d)
        r == ToonResultaten(b.ss)
    IN /\ session_state' = b.ss
       /\ run' = [knop |-> knop, warning |-> b.warning, berekend |-> b.berekend,
                  uit |-> r]
       /\ ooit_berekend' = (ooit_berekend \/ b.berekend)

\* The first execution of main() of a session: widgets at their defaults,
\* empty session state, button not pressed.
Init ==
    /\ gas_verbruik = 0
    /\ elektra_verbruik = 0
    /\ stroom_type = StroomTypes[1]
    /\ diesel_verbruik = 0
    /\ session_state = LegeSessie
    /\ run = [knop |-> FALSE, warning |-> FALSE, berekend |-> FALSE,
              uit |-> ToonResultaten(LegeSessie)]
    /\ ooit_berekend = FALSE

\* The user changes the gas number_input; the script reruns.
WijzigGas ==
    \E v \in Verbruiken \ {gas_verbruik} :
        /\ gas_verbruik' = v
        /\ UNCHANGED <<elektra_verbruik, stroom_type, diesel_verbruik>>
        /\ Main(FALSE, v, elektra_verbruik, stroom_type, diesel_verbruik)

\* The user changes the electricity number_input; the script reruns.
WijzigElektra ==
    \E v \in Verbruiken \ {elektra_verbruik} :
        /\ elektra_verbruik' = v
        /\ UNCHANGED <<gas_verbruik, stroom_type, diesel_verbruik>>
        /\ Main(FALSE, gas_verbruik, v, stroom_type, diesel_verbruik)

\* The user picks the other option of the selectbox; the script reruns.
WijzigStroomType ==
    \E i \in 1 .. Len(StroomTypes) :
        /\ StroomTypes[i] # stroom_type
        /\ stroom_type' = StroomTypes[i]
        /\ UNCHANGED <<gas_verbruik, elektra_verbruik, diesel_verbruik>>
        /\ Main(FALSE, gas_verbruik, elektra_verbruik, StroomTypes[i], diesel_verbruik)

\* The user changes the diesel number_input; the script reruns.
WijzigDiesel ==
    \E v \in Verbruiken \ {diesel_verbruik} :
        /\ diesel_verbruik' = v
        /\ UNCHANGED <<gas_verbruik, elektra_verbruik, stroom_type>>
        /\ Main(FALSE, gas_verbruik, elektra_verbruik, stroom_type, v)

\* The user presses the "Bereken" button; the script reruns with it set.
KlikBereken ==
    /\ UNCHANGED <<gas_verbruik, elektra_verbruik, stroom_type, diesel_verbruik>>
    /\ Main(TRUE, gas_verbruik, elektra_verbruik, stroom_type, diesel_verbruik)

\* The user presses the download button, which exists only in a run that
\* offered it; the script reruns.
KlikDownload ==
    /\ run.uit.download
    /\ UNCHANGED <<gas_verbruik, elektra_verbruik, stroom_type, diesel_verbruik>>
    /\ Main(FALSE, gas_verbruik, elektra_verbruik, stroom_type, diesel_verbruik)

Next ==
    \/ WijzigGas
    \/ WijzigElektra
    \/ WijzigStroomType
    \/ WijzigDiesel
    \/ KlikBereken
    \/ KlikDownload

Spec == Init /\ [][Next]_vars

(***************************************************************************)
(* Properties.                                                             *)
(***************************************************************************)

\* The session holds a result (the test of line 290).
HeeftResultaat == "emissies" \in DOMAIN session_state

\* The widgets hold zero for all three quantities.
InvoerAlleNul == gas_verbruik = 0 /\ elektra_verbruik = 0 /\ diesel_verbruik = 0

\* Membership and lookup in a dict.
Heeft(d, k) == \E i \in 1 .. Len(d) : d[i].categorie = k

Waarde(d, k) == d[CHOOSE i \in 1 .. Len(d) : d[i].categorie = k].emissie

WaardeOfNul(d, k) == IF Heeft(d, k) THEN Waarde(d, k) ELSE 0

Abs(n) == IF n < 0 THEN -n ELSE n

\* Position of a category in the fixed order Aardgas, Elektriciteit, Diesel.
Rang(k) == CASE k = "Aardgas" -> 1 [] k = "Elektriciteit" -> 2
             [] k = "Diesel" -> 3 [] OTHER -> 0

\* C1: in a run that called bereken_emissies (the widgets hold its
\* arguments, the session its result), the result has 'Aardgas' iff gas > 0,
\* 'Elektriciteit' iff elektra > 0, 'Diesel' iff diesel > 0 and no other
\* category; each present value is quantity x factor (2.085, 3.256, 0.536
\* grey, 0 green); and gas = 100, elektra = 300 grey, diesel = 0 gives
\* {Aardgas: 208.5, Elektriciteit: 160.8} with total 369.3.
C1_BerekenEmissies ==
    run.berekend =>
        LET em == session_state["emissies"]
        IN /\ Heeft(em, "Aardgas") <=> gas_verbruik > 0
           /\ Heeft(em, "Elektriciteit") <=> elektra_verbruik > 0
           /\ Heeft(em, "Diesel") <=> diesel_verbruik > 0
           /\ \A i \in 1 .. Len(em) : Rang(em[i].categorie) # 0
           /\ \A i, j \in 1 .. Len(em) :
                  em[i].categorie = em[j].categorie => i = j
           /\ gas_verbruik > 0 => Waarde(em, "Aardgas") = gas_verbruik * 2085
           /\ diesel_verbruik > 0 => Waarde(em, "Diesel") = diesel_verbruik * 3256
           /\ elektra_verbruik > 0 =>
                  Waarde(em, "Elektriciteit") =
                      elektra_verbruik * (IF stroom_type = "Grijze stroom" THEN 536 ELSE 0)
           /\ (/\ gas_verbruik = 100 /\ elektra_verbruik = 300
               /\ stroom_type = "Grijze stroom" /\ diesel_verbruik = 0) =>
                  /\ em = << [categorie |-> "Aardgas", emissie |-> 208500],
                             [categorie |-> "Elektriciteit", emissie |-> 160800] >>
                  /\ session_state["totaal"] = 369300

C1_Witness ==
    /\ run.berekend
    /\ gas_verbruik = 100 /\ elektra_verbruik = 300
    /\ stroom_type = "Grijze stroom" /\ diesel_verbruik = 0

\* C2: whenever the session holds a result, the stored totaal equals the
\* sum of the values of the stored emissies.
C2_TotaalIsSom ==
    HeeftResultaat =>
        session_state["totaal"] =
            WaardeOfNul(session_state["emissies"], "Aardgas")
            + WaardeOfNul(session_state["emissies"], "Elektriciteit")
            + WaardeOfNul(session_state["emissies"], "Diesel")

C2_Witness ==
    /\ HeeftResultaat
    /\ Len(session_state["emissies"]) = 3
    /\ session_state["totaal"] > 0
    /\ ~run.knop

\* C3: a press of the button with all three quantities zero shows the
\* warning, does not call bereken_emissies and leaves the session state as
\* it was before the press.
C3_NulInvoerLaatSessie ==
    [][(run'.knop /\ InvoerAlleNul') =>
           /\ run'.warning
           /\ ~run'.berekend
           /\ session_state' = session_state]_vars

C3_Witness ==
    /\ run.knop /\ InvoerAlleNul /\ run.warning
    /\ HeeftResultaat

\* C4 as stated: in the run that handles a press with all three quantities
\* zero, no report is generated and no download is offered.
C4_Origineel ==
    (run.knop /\ InvoerAlleNul) =>
        /\ ~run.uit.pdf_gegenereerd
        /\ ~run.uit.download

\* C4 amended: in the run that handles a press with all three quantities
\* zero, a report is generated or a download offered only if the session
\* holds the record of an earlier successful calculation, and the report
\* is then built from that record, whose quantities are not all zero.
C4_RapportUitOpgeslagenRecord ==
    (run.knop /\ InvoerAlleNul) =>
        /\ ~HeeftResultaat => (~run.uit.pdf_gegenereerd /\ ~run.uit.download)
        /\ run.uit.download => run.uit.pdf_gegenereerd
        /\ run.uit.pdf_gegenereerd =>
              /\ HeeftResultaat
              /\ ooit_berekend
              /\ LET v == session_state["verbruik"]
                     t == run.uit.pdf.verbruik_tabel
                 IN /\ ~(v.gas = 0 /\ v.elektra = 0 /\ v.diesel = 0)
                    /\ t[1][2] = v.gas * 100
                    /\ t[2][2] = v.elektra * 100
                    /\ t[3][2] = session_state["stroom_type"]
                    /\ t[4][2] = v.diesel * 100
              /\ Len(run.uit.pdf.emissie_tabel) = Len(session_state["emissies"])
              /\ Len(run.uit.pdf.emissie_tabel) > 0

C4_Witness ==
    /\ run.knop /\ InvoerAlleNul /\ run.warning
    /\ run.uit.pdf_gegenereerd /\ run.uit.download

\* C5: the download is offered in a run only if a successful calculation
\* happened earlier in the session or in that run; as long as none has
\* happened, no report is generated and no download button is shown.
C5_DownloadNaBerekening ==
    /\ run.uit.download => ooit_berekend
    /\ ~ooit_berekend => (~run.uit.pdf_gegenereerd /\ ~run.uit.download)

C5_Witness ==
    /\ run.uit.download
    /\ ~run.berekend
    /\ ~run.knop

\* C6 as stated: every press with at least one quantity > 0 completes the
\* calculation and the redraw (table, chart, report) without an error, and
\* no run at all raises one.
C6_GeenFout ==
    /\ ~run.uit.fout
    /\ (run.knop /\ ~InvoerAlleNul) =>
           /\ run.berekend
           /\ run.uit.fig_aangeroepen
           /\ run.uit.pdf_gegenereerd
           /\ run.uit.download

\* Sum of the percentage column of the report built from the stored record.
PercentageSom ==
    LET pdf == genereer_pdf(session_state["emissies"], session_state["verbruik"],
                            session_state["totaal"], session_state["stroom_type"])
    IN sum([i \in 1 .. Len(pdf.emissie_tabel) |-> pdf.emissie_tabel[i].percentage])

\* C7 as stated: for every stored result the percentages of the report's
\* emissions table sum to within 0.1 of 100.
C7_Origineel ==
    HeeftResultaat => Abs(PercentageSom - 1000) <= 1

\* C7 amended: for every stored result with a total > 0 the percentages of
\* the report's emissions table sum to within 0.1 of 100; for a stored
\* result with total 0 every percentage is 0 and so is their sum.
C7_PercentagesSom ==
    HeeftResultaat =>
        /\ session_state["totaal"] > 0 => Abs(PercentageSom - 1000) <= 1
        /\ session_state["totaal"] = 0 => PercentageSom = 0
        /\ run.uit.pdf_gegenereerd =>
               Abs(sum([i \in 1 .. Len(run.uit.pdf.emissie_tabel) |->
                           run.uit.pdf.emissie_tabel[i].percentage]) - 1000) <= 1

C7_Witness ==
    /\ HeeftResultaat
    /\ run.uit.pdf_gegenereerd
    /\ Len(session_state["emissies"]) = 3
    /\ PercentageSom # 1000

\* The tariff that is not st.
AndereStroom(st) == IF st = StroomTypes[1] THEN StroomTypes[2] ELSE StroomTypes[1]

\* C8: the stored result of a call with elektra > 0 and the result of the
\* call with the same quantities and the other tariff have the same
\* categories and the same 'Aardgas' and 'Diesel' values, and the
\* 'Elektriciteit' value of the green one is exactly 0.
C8_GrijsGroen ==
    (HeeftResultaat /\ session_state["verbruik"].elektra > 0) =>
        LET v == session_state["verbruik"]
            st == session_state["stroom_type"]
            a == session_state["emissies"]
            b == bereken_emissies(v.gas, v.elektra, AndereStroom(st), v.diesel)
            groen == IF st = "Groene stroom" THEN a ELSE b
            grijs == IF st = "Groene stroom" THEN b ELSE a
        IN /\ keys(a) = keys(b)
           /\ WaardeOfNul(a, "Aardgas") = WaardeOfNul(b, "Aardgas")
           /\ WaardeOfNul(a, "Diesel") = WaardeOfNul(b, "Diesel")
           /\ Heeft(groen, "Elektriciteit") /\ Waarde(groen, "Elektriciteit") = 0
           /\ Heeft(grijs, "Elektriciteit") /\ Waarde(grijs, "Elektriciteit") > 0

C8_Witness ==
    /\ HeeftResultaat
    /\ session_state["verbruik"].elektra > 0
    /\ session_state["verbruik"].gas > 0
    /\ session_state["verbruik"].diesel > 0
    /\ session_state["stroom_type"] = "Groene stroom"

\* C9: the session record is either wholly absent or holds all four keys
\* with emissies = bereken_emissies of its own verbruik and stroom_type; it
\* changes only in a run that performs a successful calculation, which
\* stores the widget values of that run; every other run (a widget change,
\* a download, a zero press) leaves it unchanged.
C9_RecordAlsGeheel ==
    /\ [](\/ DOMAIN session_state = {}
          \/ /\ DOMAIN session_state = SessionKeys
             /\ session_state["emissies"] =
                    bereken_emissies(session_state["verbruik"].gas,
                                     session_state["verbruik"].elektra,
                                     session_state["stroom_type"],
                                     session_state["verbruik"].diesel))
    /\ [][/\ session_state' # session_state => run'.berekend
          /\ ~run'.berekend => session_state' = session_state
          /\ run'.berekend =>
                /\ DOMAIN session_state' = SessionKeys
                /\ session_state'["verbruik"] =
                       [gas |-> gas_verbruik', elektra |-> elektra_verbruik',
                        diesel |-> diesel_verbruik']
                /\ session_state'["stroom_type"] = stroom_type']_vars

C9_Witness ==
    /\ HeeftResultaat
    /\ ~run.knop
    /\ run.uit.pdf_gegenereerd
    /\ session_state["stroom_type"] # stroom_type
    /\ session_state["verbruik"].gas # gas_verbruik

\* C10: a stored result has between 1 and 3 categories in the order
\* Aardgas, Elektriciteit, Diesel; whenever a run calls maak_staafdiagram
\* it does not return None, the chart is shown and has one bar per stored
\* category, never more than the palette has colours.
C10_ResultaatNietLeeg ==
    HeeftResultaat =>
        LET em == session_state["emissies"]
        IN /\ Len(em) \in 1 .. 3
           /\ \A i \in 1 .. Len(em) : Rang(em[i].categorie) # 0
           /\ \A i, j \in 1 .. Len(em) :
                  i < j => Rang(em[i].categorie) < Rang(em[j].categorie)
           /\ run.uit.fig_aangeroepen =>
                  /\ ~run.uit.fig.none
                  /\ run.uit.chart
                  /\ run.uit.fig.x = keys(em)
                  /\ run.uit.fig.y = values(em)
                  /\ Len(run.uit.fig.x) <= Len(Palet)

C10_Witness ==
    /\ HeeftResultaat
    /\ run.uit.fig_aangeroepen
    /\ run.uit.chart
    /\ Len(run.uit.fig.x) = 3

====
